---- MODULE Spec2Model ----
(***************************************************************************)
(* Provider budget limiting (litellm/router_strategy/provider_budgets.py). *)
(* ProviderBudgetLimiting filters the healthy deployments of a router by   *)
(* the spend of each deployment's provider and records the cost of every   *)
(* completed request in a shared counter store (DualCache).                *)
(*                                                                         *)
(* Spend and cost are counted in whole units (naturals stand for the       *)
(* floats of the source).  A string is a sequence of one-character         *)
(* strings, so that "1d" is <<"1", "d">>.  Time is counted in seconds.     *)
(***************************************************************************)
EXTENDS Integers, Sequences, FiniteSets, TLC

\* ---------------------------------------------------------------- bounds
MaxCands == 3        \* longest healthy_deployments list
MaxCost == 2         \* largest response_cost of one completion event
MaxSpend == 3        \* cap on a counter's value
MaxDays == 2         \* the clock stops after this many days
MaxPeriodLen == 3    \* longest period string given to get_ttl_seconds

\* Python's None
None == -1

\* ---------------------------------------------------------------- strings
Digits == {"0", "1", "2", "3", "4", "5", "6", "7", "8", "9"}

DigitVal(c) ==
    CASE c = "0" -> 0 [] c = "1" -> 1 [] c = "2" -> 2 [] c = "3" -> 3
      [] c = "4" -> 4 [] c = "5" -> 5 [] c = "6" -> 6 [] c = "7" -> 7
      [] c = "8" -> 8 [] c = "9" -> 9

\* str.strip(): drops the whitespace at both ends
RECURSIVE LStrip(_)
LStrip(s) == IF s # <<>> /\ Head(s) = " " THEN LStrip(Tail(s)) ELSE s

RECURSIVE RStrip(_)
RStrip(s) ==
    IF s # <<>> /\ s[Len(s)] = " " THEN RStrip(SubSeq(s, 1, Len(s) - 1)) ELSE s

Strip(s) == RStrip(LStrip(s))

\* the text after an optional sign
Unsigned(s) == IF s # <<>> /\ Head(s) \in {"+", "-"} THEN Tail(s) ELSE s

\* int(str) accepts: whitespace, an optional sign, decimal digits with single
\* underscores between digits
IntValid(s) ==
    LET b == Unsigned(Strip(s)) IN
        /\ b # <<>>
        /\ \A i \in 1..Len(b) : b[i] \in Digits \cup {"_"}
        /\ b[1] \in Digits
        /\ b[Len(b)] \in Digits
        /\ \A i \in 1..(Len(b) - 1) : ~(b[i] = "_" /\ b[i + 1] = "_")

RECURSIVE DigitsValue(_)
DigitsValue(b) ==
    IF b = <<>> THEN 0
    ELSE IF b[Len(b)] = "_" THEN DigitsValue(SubSeq(b, 1, Len(b) - 1))
    ELSE 10 * DigitsValue(SubSeq(b, 1, Len(b) - 1)) + DigitVal(b[Len(b)])

\* int(str) of a string IntValid accepts
IntValue(s) ==
    LET t == Strip(s) IN
        IF Head(t) = "-" THEN 0 - DigitsValue(Unsigned(t))
        ELSE DigitsValue(Unsigned(t))

\* a conversion that takes the count for hours
get_ttl_seconds_Hours(time_period) ==
    IF time_period # <<>> /\ time_period[Len(time_period)] = "d"
    THEN LET days == SubSeq(time_period, 1, Len(time_period) - 1) IN
             IF IntValid(days)
             THEN [raised |-> "no", value |-> IntValue(days) * 60 * 60]
             ELSE [raised |-> "ValueError", value |-> None]
    ELSE [raised |-> "ValueError", value |-> None]

\* get_ttl_seconds: the result, or the ValueError it raises
get_ttl_seconds(time_period) ==
    IF time_period # <<>> /\ time_period[Len(time_period)] = "d"
    THEN LET days == SubSeq(time_period, 1, Len(time_period) - 1) IN
             IF IntValid(days)
             THEN [raised |-> "no", value |-> IntValue(days) * 24 * 60 * 60]
             ELSE [raised |-> "ValueError", value |-> None]
    ELSE [raised |-> "ValueError", value |-> None]

\* ---------------------------------------------------------------- inputs
SecondsPerDay == 24 * 60 * 60

Tasks == {1, 2}

\* the task of the sequential caller
Callers == {1}

Providers == {"openai", "anthropic", "azure"}

\* providers the configuration may give a budget
BudgetedProviders == {"openai", "anthropic"}

NoProvider == "None"

\* the budgets a configuration may give a provider (ProviderBudgetInfo)
BudgetInfos(provider) ==
    IF provider = "openai"
    THEN { [budget_limit |-> 2, time_period |-> <<"1", "d">>],
           [budget_limit |-> 1, time_period |-> <<"2", "d">>],
           [budget_limit |-> 2, time_period |-> <<"7", "x">>] }
    ELSE { [budget_limit |-> 1, time_period |-> <<"2", "d">>] }

\* the absent ProviderBudgetInfo (None)
NoConfig == [budget_limit |-> None, time_period |-> <<>>]

Configs ==
    UNION { { config \in [ps -> UNION { BudgetInfos(p) : p \in ps }] :
                \A p \in ps : config[p] \in BudgetInfos(p) } :
            ps \in SUBSET BudgetedProviders }

\* the deployments of the router: an id and the model of litellm_params
Deployments ==
    { [id |-> 1, model |-> "openai/gpt-4"],
      [id |-> 2, model |-> "anthropic/claude-3"],
      [id |-> 3, model |-> "openai/gpt-3.5"],
      [id |-> 4, model |-> "azure/gpt-4"],
      [id |-> 5, model |-> "unmapped"] }

\* no deployment (None)
NoDeployment == [id |-> 0, model |-> "None"]

\* lists of distinct deployments, in the router's order
CandidateLists ==
    { hd \in UNION { [1..n -> Deployments] : n \in 0..MaxCands } :
        \A i \in 1..Len(hd) : \A j \in 1..Len(hd) : i < j => hd[i].id < hd[j].id }

Costs == 0..MaxCost

Requests == {"req-1", "req-2"}

\* kwargs of a completion event: whether standard_logging_object is there,
\* its response_cost and litellm_params.custom_llm_provider when they are
Events ==
    [payload : {TRUE}, response_cost : Costs \cup {None},
     custom_llm_provider : Providers \cup {NoProvider}, id : Requests]
    \cup
    [payload : {FALSE}, response_cost : {None},
     custom_llm_provider : {"openai"}, id : {"req-1"}]

\* the inputs of the concurrent callers: one deployment whose provider can be
\* derived, a complete event of a provider that may have a budget
ConcurrentLists ==
    { hd \in CandidateLists :
        Len(hd) = 1 /\ \A i \in 1..Len(hd) : hd[i].model # "unmapped" }

ConcurrentEvents ==
    { kwargs \in Events :
        /\ kwargs.payload
        /\ kwargs.response_cost \in Costs \ {0}
        /\ kwargs.custom_llm_provider \in BudgetedProviders }

\* ---------------------------------------------------------------- helpers
\* litellm.get_llm_provider: the provider of a model, "" when it raises
get_llm_provider(model) ==
    CASE model \in {"openai/gpt-4", "openai/gpt-3.5"} -> "openai"
      [] model = "anthropic/claude-3" -> "anthropic"
      [] model = "azure/gpt-4" -> "azure"
      [] OTHER -> ""

\* a derivation that swallows the exception
ProviderRaises_Never(deployment) == FALSE

\* _get_llm_provider_for_deployment raises what get_llm_provider raises
ProviderRaises(deployment) == get_llm_provider(deployment.model) = ""

_get_llm_provider_for_deployment(deployment) == get_llm_provider(deployment.model)

_get_budget_config_for_provider(config, provider) ==
    IF provider \in DOMAIN config THEN config[provider] ELSE NoConfig

\* f"provider_spend:{provider}:{time_period}"
SpendKey(provider, time_period) == <<"provider_spend", provider, time_period>>

\* a list that keeps every occurrence
DictKeys_NoDedup(ps) == ps

\* the keys of a dict filled in the order of a list: first occurrences
RECURSIVE DictKeys(_)
DictKeys(ps) ==
    IF ps = <<>> THEN <<>>
    ELSE LET front == DictKeys(SubSeq(ps, 1, Len(ps) - 1))
             last == ps[Len(ps)]
         IN IF \E i \in 1..Len(front) : front[i] = last THEN front
            ELSE Append(front, last)

\* provider_configs.keys(): the providers of the candidates that have a budget
ProviderConfigKeys(config, healthy_deployments) ==
    LET providers == [i \in 1..Len(healthy_deployments) |->
                         _get_llm_provider_for_deployment(healthy_deployments[i])]
        HasConfig(p) == _get_budget_config_for_provider(config, p) # NoConfig
    IN SelectSeq(DictKeys(providers), HasConfig)

CacheKeys(config, healthy_deployments) ==
    LET ps == ProviderConfigKeys(config, healthy_deployments) IN
        [i \in 1..Len(ps) |-> SpendKey(ps[i], config[ps[i]].time_period)]

\* _current_spends or [0.0] * len(provider_configs)
CurrentSpends(_current_spends, n) ==
    IF _current_spends = <<>> THEN [i \in 1..n |-> 0] ELSE _current_spends

\* float(x or 0.0)
FloatOrZero(x) == IF x = None THEN 0 ELSE x

\* a map that gives every provider the first spend of the batch
ProviderSpend_First(config, healthy_deployments, _current_spends, provider) ==
    LET ps == ProviderConfigKeys(config, healthy_deployments)
        current_spends == CurrentSpends(_current_spends, Len(ps))
    IN IF \E i \in 1..Len(ps) : ps[i] = provider
       THEN FloatOrZero(current_spends[1])
       ELSE 0

\* provider_spend_map.get(provider, 0.0)
ProviderSpend(config, healthy_deployments, _current_spends, provider) ==
    LET ps == ProviderConfigKeys(config, healthy_deployments)
        current_spends == CurrentSpends(_current_spends, Len(ps))
    IN IF \E i \in 1..Len(ps) : ps[i] = provider
       THEN FloatOrZero(current_spends[CHOOSE i \in 1..Len(ps) : ps[i] = provider])
       ELSE 0

\* a comparison that lets spend equal to the limit through
OverBudget_Strict(current_spend, budget_limit) == current_spend > budget_limit

\* current_spend >= budget_limit
OverBudget(current_spend, budget_limit) == current_spend >= budget_limit

\* the deployment is skipped for want of a budget_config
SkipsUnbudgeted(budget_config) == budget_config = NoConfig

\* potential_deployments
PotentialDeployments(config, healthy_deployments, _current_spends) ==
    LET Keeps(deployment) ==
            LET provider == _get_llm_provider_for_deployment(deployment)
                budget_config == _get_budget_config_for_provider(config, provider)
            IN /\ ~SkipsUnbudgeted(budget_config)
               /\ ~OverBudget(ProviderSpend(config, healthy_deployments,
                                            _current_spends, provider),
                              budget_config.budget_limit)
    IN SelectSeq(healthy_deployments, Keeps)

Range(s) == { s[i] : i \in 1..Len(s) }

\* ---------------------------------------------------------------- the store
\* DualCache.async_batch_get_cache: the value of each key, None when absent
async_batch_get_cache(c, keys) ==
    [i \in 1..Len(keys) |-> IF keys[i] \in DOMAIN c THEN c[keys[i]].value ELSE None]

\* DualCache.async_increment_cache: adds to a live counter and leaves its
\* expiry alone, creates an absent one with the ttl
async_increment_cache(c, key, value, ttl, clock) ==
    IF key \in DOMAIN c
    THEN [c EXCEPT ![key].value = @ + value]
    ELSE [k \in DOMAIN c \cup {key} |->
             IF k = key THEN [value |-> value, expiry |-> clock + ttl] ELSE c[k]]

\* the store drops a counter whose ttl has elapsed
Live(c, clock) == { k \in DOMAIN c : c[k].expiry > clock }

\* ---------------------------------------------------------------- the recorder
\* standard_logging_payload.get("response_cost", 0)
ResponseCost(kwargs) ==
    IF kwargs.response_cost = None THEN 0 ELSE kwargs.response_cost

\* the ValueError async_log_success_event raises before it reaches the store,
\* "no" when it raises none
LogRaises(config, kwargs) ==
    IF ~kwargs.payload THEN "ValueError"
    ELSE IF kwargs.custom_llm_provider = NoProvider THEN "ValueError"
    ELSE IF _get_budget_config_for_provider(config, kwargs.custom_llm_provider) = NoConfig
         THEN "ValueError"
    ELSE get_ttl_seconds(config[kwargs.custom_llm_provider].time_period).raised

\* a spend key that leaves the period out
LogSpendKey_NoPeriod(custom_llm_provider, budget_config) ==
    SpendKey(custom_llm_provider, <<>>)

\* spend_key of async_log_success_event
LogSpendKey(custom_llm_provider, budget_config) ==
    SpendKey(custom_llm_provider, budget_config.time_period)

\* an increment that arms the ttl again on a live counter
IncrementSpend_RearmTtl(c, spend_key, response_cost, ttl_seconds, clock) ==
    [k \in DOMAIN c \cup {spend_key} |->
        IF k # spend_key THEN c[k]
        ELSE [value |-> (IF k \in DOMAIN c THEN c[k].value ELSE 0) + response_cost,
              expiry |-> clock + ttl_seconds]]

\* a store call that sets the counter to the cost instead of adding it
IncrementSpend_SetCache(c, spend_key, response_cost, ttl_seconds, clock) ==
    [k \in DOMAIN c \cup {spend_key} |->
        IF k # spend_key THEN c[k]
        ELSE [value |-> response_cost,
              expiry |-> IF k \in DOMAIN c THEN c[k].expiry ELSE clock + ttl_seconds]]

\* the store call of async_log_success_event
IncrementSpend(c, spend_key, response_cost, ttl_seconds, clock) ==
    async_increment_cache(c, spend_key, response_cost, ttl_seconds, clock)

\* ---------------------------------------------------------------- state
VARIABLES
    provider_budget_config,  \* self.provider_budget_config
    cache,                   \* self.router_cache: live key -> [value, expiry]
    window,                  \* history of each live counter: when it was created and
                             \* last incremented, the costs of the calls applied to it
    now,                     \* the clock of the store, in seconds
    pc,                      \* where each task is
    sel,                     \* locals of async_get_available_deployments
    rec,                     \* locals of async_log_success_event
    time_period,             \* argument of a direct call of get_ttl_seconds
    ttl_result               \* what that call gave

vars == <<provider_budget_config, cache, window, now, pc, sel, rec,
          time_period, ttl_result>>

SelIdle ==
    [healthy_deployments |-> <<>>, cache_keys |-> <<>>, _current_spends |-> <<>>,
     potential_deployments |-> <<>>, result |-> NoDeployment, error |-> "no",
     reads |-> 0, read_failed |-> FALSE, over |-> {}]

RecIdle ==
    [kwargs |-> [payload |-> FALSE, response_cost |-> None,
                 custom_llm_provider |-> NoProvider, id |-> "None"],
     spend_key |-> <<>>, response_cost |-> 0, ttl_seconds |-> 0, applied_at |-> 0,
     admitted_read |-> None, error |-> "no"]

NotCalled == [raised |-> "not called", value |-> None]

\* __init__ keeps the configuration it is given
Init ==
    /\ provider_budget_config \in Configs
    /\ cache = <<>>
    /\ window = <<>>
    /\ now = 0
    /\ pc = [t \in Tasks |-> "idle"]
    /\ sel = [t \in Tasks |-> SelIdle]
    /\ rec = [t \in Tasks |-> RecIdle]
    /\ time_period = <<>>
    /\ ttl_result = NotCalled

\* ---------------------------------------------------------------- actions
\* the counters among the keys that stand at or over their limit, each with
\* the time it was created
OverAtStart(keys) ==
    { <<keys[i], window[keys[i]].created>> :
        i \in { j \in 1..Len(keys) :
                   /\ keys[j] \in DOMAIN cache
                   /\ cache[keys[j]].value >=
                          provider_budget_config[keys[j][2]].budget_limit } }

\* async_get_available_deployments up to the batch read it awaits
GetAvailableDeployments(t, healthy_deployments) ==
    /\ pc[t] = "idle"
    /\ IF \E i \in 1..Len(healthy_deployments) : ProviderRaises(healthy_deployments[i])
       THEN /\ pc' = [pc EXCEPT ![t] = "select_raised"]
            /\ sel' = [sel EXCEPT ![t] =
                         [SelIdle EXCEPT !.healthy_deployments = healthy_deployments,
                                         !.error = "ProviderError"]]
       ELSE /\ pc' = [pc EXCEPT ![t] = "select_await"]
            /\ sel' = [sel EXCEPT ![t] =
                         [SelIdle EXCEPT !.healthy_deployments = healthy_deployments,
                                         !.cache_keys =
                                             CacheKeys(provider_budget_config,
                                                       healthy_deployments),
                                         !.over =
                                             OverAtStart(
                                                 CacheKeys(provider_budget_config,
                                                           healthy_deployments))]]
    /\ UNCHANGED <<provider_budget_config, cache, window, now, rec,
                   time_period, ttl_result>>

\* the store answers the batch read; the rest of
\* async_get_available_deployments runs and returns
SelectDeployment(t) ==
    /\ pc[t] = "select_await"
    /\ LET _current_spends == async_batch_get_cache(cache, sel[t].cache_keys)
           potential_deployments ==
               PotentialDeployments(provider_budget_config,
                                    sel[t].healthy_deployments, _current_spends)
       IN \E result \in (IF potential_deployments = <<>> THEN {NoDeployment}
                         ELSE Range(potential_deployments)) :
              sel' = [sel EXCEPT ![t]._current_spends = _current_spends,
                                 ![t].potential_deployments = potential_deployments,
                                 ![t].result = result,
                                 ![t].reads = @ + 1]
    /\ pc' = [pc EXCEPT ![t] = "select_done"]
    /\ UNCHANGED <<provider_budget_config, cache, window, now, rec,
                   time_period, ttl_result>>

\* a handler that takes a failed read for zero spend and goes on
BatchGetRaised_FailOpen(config, s) ==
    LET potential_deployments ==
            PotentialDeployments(config, s.healthy_deployments, <<>>)
    IN [pc |-> "select_done",
        sel |-> [s EXCEPT !.potential_deployments = potential_deployments,
                          !.result = IF potential_deployments = <<>> THEN NoDeployment
                                     ELSE Head(potential_deployments)]]

\* nothing catches the exception of the batch read: where the call is left
\* and what its locals are
BatchGetRaised(config, s) ==
    [pc |-> "select_raised", sel |-> [s EXCEPT !.error = "StoreError"]]

\* the batch read fails
BatchGetFails(t) ==
    /\ pc[t] = "select_await"
    /\ LET out == BatchGetRaised(provider_budget_config, sel[t]) IN
           /\ pc' = [pc EXCEPT ![t] = out.pc]
           /\ sel' = [sel EXCEPT ![t] =
                        [out.sel EXCEPT !.reads = @ + 1, !.read_failed = TRUE]]
    /\ UNCHANGED <<provider_budget_config, cache, window, now, rec,
                   time_period, ttl_result>>

\* async_log_success_event up to the increment it awaits; admitted_read is the
\* spend on which the request was admitted, None when no call of the filter
\* came before
RecordCall(t, kwargs, admitted_read) ==
    LET raised == LogRaises(provider_budget_config, kwargs) IN
        IF raised # "no"
        THEN /\ pc' = [pc EXCEPT ![t] = "record_raised"]
             /\ rec' = [rec EXCEPT ![t] =
                          [RecIdle EXCEPT !.kwargs = kwargs, !.error = raised,
                                          !.admitted_read = admitted_read]]
        ELSE LET budget_config ==
                     _get_budget_config_for_provider(provider_budget_config,
                                                     kwargs.custom_llm_provider)
             IN /\ pc' = [pc EXCEPT ![t] = "record_await"]
                /\ rec' = [rec EXCEPT ![t] =
                             [kwargs |-> kwargs,
                              spend_key |-> LogSpendKey(kwargs.custom_llm_provider,
                                                        budget_config),
                              response_cost |-> ResponseCost(kwargs),
                              ttl_seconds |->
                                  get_ttl_seconds(budget_config.time_period).value,
                              applied_at |-> 0,
                              admitted_read |-> admitted_read,
                              error |-> "no"]]

\* a call of async_log_success_event on its own
LogSuccessEvent(t, kwargs) ==
    /\ pc[t] = "idle"
    /\ RecordCall(t, kwargs, None)
    /\ UNCHANGED <<provider_budget_config, cache, window, now, sel,
                   time_period, ttl_result>>

\* the spend the batch read of task t returned for the provider of its result
AdmittedRead(t) ==
    LET p == _get_llm_provider_for_deployment(sel[t].result)
        keys == sel[t].cache_keys
    IN IF \E i \in 1..Len(keys) : keys[i][2] = p
       THEN FloatOrZero(sel[t]._current_spends[CHOOSE i \in 1..Len(keys) : keys[i][2] = p])
       ELSE None

\* the request the filter admitted completes on the deployment it was given:
\* the router calls async_log_success_event with the provider of that deployment
CompletionHook(t, kwargs) ==
    /\ pc[t] = "select_done"
    /\ sel[t].result # NoDeployment
    /\ kwargs.custom_llm_provider = _get_llm_provider_for_deployment(sel[t].result)
    /\ RecordCall(t, kwargs, AdmittedRead(t))
    /\ sel' = [sel EXCEPT ![t] = SelIdle]
    /\ UNCHANGED <<provider_budget_config, cache, window, now, time_period, ttl_result>>

\* the store applies the increment and async_log_success_event returns
IncrementCache(t) ==
    /\ pc[t] = "record_await"
    /\ LET key == rec[t].spend_key
           was_live == key \in DOMAIN cache
           grown == IncrementSpend(cache, key, rec[t].response_cost,
                                   rec[t].ttl_seconds, now)
       IN /\ \A k \in DOMAIN grown : grown[k].value <= MaxSpend
          /\ cache' = grown
          /\ window' =
                 [k \in DOMAIN grown |->
                     IF k \in DOMAIN window /\ k # key THEN window[k]
                     ELSE IF k = key /\ was_live
                     THEN [window[k] EXCEPT
                              !.applied = @ + ResponseCost(rec[t].kwargs)]
                     ELSE [created |-> now,
                           applied |-> ResponseCost(rec[t].kwargs)]]
    /\ pc' = [pc EXCEPT ![t] = "record_done"]
    /\ rec' = [rec EXCEPT ![t].applied_at = now]
    /\ UNCHANGED <<provider_budget_config, now, sel, time_period, ttl_result>>

\* the increment fails: nothing catches the exception of the store
IncrementFails(t) ==
    /\ pc[t] = "record_await"
    /\ pc' = [pc EXCEPT ![t] = "record_raised"]
    /\ rec' = [rec EXCEPT ![t].error = "StoreError"]
    /\ UNCHANGED <<provider_budget_config, cache, window, now, sel,
                   time_period, ttl_result>>

\* the caller has its answer (a result or an exception); the task is free again
Return(t) ==
    /\ pc[t] \in {"select_done", "select_raised", "record_done", "record_raised"}
    /\ pc' = [pc EXCEPT ![t] = "idle"]
    /\ sel' = [sel EXCEPT ![t] = SelIdle]
    /\ rec' = [rec EXCEPT ![t] = RecIdle]
    /\ UNCHANGED <<provider_budget_config, cache, window, now, time_period, ttl_result>>

\* a day passes; the store deletes the counters whose ttl has elapsed
Tick ==
    /\ now < MaxDays * SecondsPerDay
    /\ now' = now + SecondsPerDay
    /\ cache' = [k \in Live(cache, now') |-> cache[k]]
    /\ window' = [k \in Live(cache, now') |-> window[k]]
    /\ UNCHANGED <<provider_budget_config, pc, sel, rec, time_period, ttl_result>>

\* one caller, every input
Next ==
    \/ \E t \in Callers : \E healthy_deployments \in CandidateLists :
           GetAvailableDeployments(t, healthy_deployments)
    \/ \E t \in Callers : SelectDeployment(t)
    \/ \E t \in Callers : BatchGetFails(t)
    \/ \E t \in Callers : \E kwargs \in Events : LogSuccessEvent(t, kwargs)
    \/ \E t \in Callers : IncrementCache(t)
    \/ \E t \in Callers : IncrementFails(t)
    \/ \E t \in Callers : Return(t)
    \/ Tick

Spec == Init /\ [][Next]_vars

\* a task per request in flight: the calls of the tasks interleave at their awaits
ConcurrentNext ==
    \/ \E t \in Tasks : \E healthy_deployments \in ConcurrentLists :
           GetAvailableDeployments(t, healthy_deployments)
    \/ \E t \in Tasks : SelectDeployment(t)
    \/ \E t \in Tasks : BatchGetFails(t)
    \/ \E t \in Tasks : \E kwargs \in ConcurrentEvents : LogSuccessEvent(t, kwargs)
    \/ \E t \in Tasks : IncrementCache(t)
    \/ \E t \in Tasks : IncrementFails(t)
    \/ \E t \in Tasks : Return(t)
    \/ Tick

ConcurrentSpec == Init /\ [][ConcurrentNext]_vars

\* a task per request: the filter admits it, it completes, the recorder counts it
RequestNext ==
    \/ \E t \in Tasks : \E healthy_deployments \in ConcurrentLists :
           GetAvailableDeployments(t, healthy_deployments)
    \/ \E t \in Tasks : SelectDeployment(t)
    \/ \E t \in Tasks : \E kwargs \in ConcurrentEvents : CompletionHook(t, kwargs)
    \/ \E t \in Tasks : IncrementCache(t)
    \/ \E t \in Tasks : Return(t)
    \/ Tick

RequestSpec == Init /\ [][RequestNext]_vars

\* ---------------------------------------------------------------- get_ttl_seconds alone
PeriodChars == {"0", "1", "3", "7", "d", "x", "-", " ", "_"}

PeriodStrings == UNION { [1..n -> PeriodChars] : n \in 0..MaxPeriodLen }

TtlInit ==
    /\ provider_budget_config = <<>>
    /\ cache = <<>>
    /\ window = <<>>
    /\ now = 0
    /\ pc = [t \in Tasks |-> "idle"]
    /\ sel = [t \in Tasks |-> SelIdle]
    /\ rec = [t \in Tasks |-> RecIdle]
    /\ time_period \in PeriodStrings
    /\ ttl_result = NotCalled

\* one call of get_ttl_seconds
GetTtlSeconds ==
    /\ ttl_result = NotCalled
    /\ ttl_result' = get_ttl_seconds(time_period)
    /\ UNCHANGED <<provider_budget_config, cache, window, now, pc, sel, rec,
                   time_period>>

TtlNext == GetTtlSeconds

TtlSpec == TtlInit /\ [][TtlNext]_vars

\* ---------------------------------------------------------------- properties
Budgeted(provider) == provider \in DOMAIN provider_budget_config

ProviderOf(deployment) == get_llm_provider(deployment.model)

\* the spend the batch read of task t returned for the key of provider p
ReadSpend(t, p) ==
    LET key == SpendKey(p, provider_budget_config[p].time_period)
        keys == sel[t].cache_keys
    IN IF \E i \in 1..Len(keys) : keys[i] = key
       THEN LET v == sel[t]._current_spends[CHOOSE i \in 1..Len(keys) : keys[i] = key]
            IN IF v = None THEN 0 ELSE v
       ELSE 0

\* the candidates of task t that are eligible: no budget, or spend below the limit
Eligible(t) ==
    { d \in Range(sel[t].healthy_deployments) :
        \/ ~Budgeted(ProviderOf(d))
        \/ ReadSpend(t, ProviderOf(d)) < provider_budget_config[ProviderOf(d)].budget_limit }

\* a period written as decimal digits followed by d
WellFormedPeriod(period) ==
    /\ Len(period) >= 2
    /\ period[Len(period)] = "d"
    /\ \A i \in 1..(Len(period) - 1) : period[i] \in Digits

RECURSIVE Decimal(_)
Decimal(ds) ==
    IF ds = <<>> THEN 0
    ELSE 10 * Decimal(SubSeq(ds, 1, Len(ds) - 1)) + DigitVal(ds[Len(ds)])

\* the seconds of a well-formed period
PeriodSeconds(period) == Decimal(SubSeq(period, 1, Len(period) - 1)) * 86400

\* C1: a candidate whose provider has no budget is eligible, so a list that
\* holds one never yields no deployment
C1_UnbudgetedIsEligible ==
    \A t \in Tasks :
        pc[t] = "select_done" =>
            \A d \in Range(sel[t].healthy_deployments) :
                ~Budgeted(ProviderOf(d)) =>
                    /\ d \in Range(sel[t].potential_deployments)
                    /\ sel[t].result # NoDeployment

\* C2: a candidate whose provider has a budget is eligible exactly when the
\* spend read for its provider is below the limit; at the limit it is excluded
\* and is not the result
C2_EligibleIffBelowLimit ==
    \A t \in Tasks :
        pc[t] = "select_done" =>
            \A d \in Range(sel[t].healthy_deployments) :
                Budgeted(ProviderOf(d)) =>
                    LET below == ReadSpend(t, ProviderOf(d)) <
                                     provider_budget_config[ProviderOf(d)].budget_limit
                    IN /\ (d \in Range(sel[t].potential_deployments)) <=> below
                       /\ ~below => sel[t].result # d

C2_Witness ==
    \E t \in Tasks :
        /\ pc[t] = "select_done"
        /\ sel[t].result # NoDeployment
        /\ \E d \in Range(sel[t].healthy_deployments) :
               /\ Budgeted(ProviderOf(d))
               /\ ReadSpend(t, ProviderOf(d)) =
                      provider_budget_config[ProviderOf(d)].budget_limit
               /\ d \notin Range(sel[t].potential_deployments)

\* C3: the result is chosen among exactly the eligible candidates, and it is
\* no deployment exactly when no candidate is eligible
C3_ResultAmongEligible ==
    \A t \in Tasks :
        pc[t] = "select_done" =>
            /\ Range(sel[t].potential_deployments) = Eligible(t)
            /\ sel[t].result \in Eligible(t) \cup {NoDeployment}
            /\ (sel[t].result = NoDeployment) <=> (Eligible(t) = {})

\* C4: recording for a provider without a budget completes without an error
\* and leaves every counter as it was
C4_UnbudgetedRecordIsNoOp ==
    [][\A t \in Tasks :
           (/\ pc[t] = "idle"
            /\ pc'[t] \in {"record_await", "record_done", "record_raised"}
            /\ rec'[t].kwargs.payload
            /\ rec'[t].kwargs.custom_llm_provider # NoProvider
            /\ ~Budgeted(rec'[t].kwargs.custom_llm_provider))
           => (pc'[t] # "record_raised" /\ cache' = cache)]_vars

\* C5: an event without a cost or without a provider fails with an error and
\* never reaches the store
C5_MissingFieldsAreFatal ==
    \A t \in Tasks :
        pc[t] \in {"record_await", "record_done"} =>
            /\ rec[t].kwargs.payload
            /\ rec[t].kwargs.response_cost # None
            /\ rec[t].kwargs.custom_llm_provider # NoProvider

\* C6: an increment of a live counter adds to its value and keeps its expiry:
\* every counter expires one period after the increment that created it
C6_IncrementKeepsExpiry ==
    [][/\ \A t \in Tasks :
              (/\ pc[t] = "record_await"
               /\ pc'[t] = "record_done"
               /\ rec[t].spend_key \in DOMAIN cache)
              => /\ cache'[rec[t].spend_key].expiry = cache[rec[t].spend_key].expiry
                 /\ cache'[rec[t].spend_key].value =
                        cache[rec[t].spend_key].value + rec[t].response_cost
       /\ \A k \in DOMAIN cache' :
              cache'[k].expiry = window'[k].created + PeriodSeconds(k[3])]_vars

C6_Witness ==
    \E t \in Tasks :
        /\ pc[t] = "record_done"
        /\ rec[t].spend_key \in DOMAIN cache
        /\ rec[t].response_cost > 0
        /\ cache[rec[t].spend_key].value > rec[t].response_cost
        /\ window[rec[t].spend_key].created < rec[t].applied_at
        /\ cache[rec[t].spend_key].expiry =
               window[rec[t].spend_key].created + PeriodSeconds(rec[t].spend_key[3])

\* C7: recording cost c for a provider with a budget and no live counter
\* creates the counter with value c and a ttl of the period in seconds, and a
\* read of the key the filter builds for that provider then returns c
C7_FirstRecordCreatesCounter ==
    [][\A t \in Tasks :
           (/\ pc[t] = "record_await"
            /\ pc'[t] = "record_done"
            /\ rec[t].kwargs.response_cost # None
            /\ \A k \in DOMAIN cache : k[2] # rec[t].kwargs.custom_llm_provider)
           => LET p == rec[t].kwargs.custom_llm_provider
                  c == rec[t].kwargs.response_cost
                  key == SpendKey(p, provider_budget_config[p].time_period)
              IN /\ key \in DOMAIN cache'
                 /\ cache'[key] =
                        [value |-> c,
                         expiry |-> now + PeriodSeconds(
                                              provider_budget_config[p].time_period)]
                 /\ \A d \in Deployments :
                        ProviderOf(d) = p =>
                            async_batch_get_cache(
                                cache', CacheKeys(provider_budget_config, <<d>>))
                              = <<c>>]_vars

C7_Witness ==
    \E t \in Tasks : \E u \in Tasks :
        /\ pc[t] = "record_done"
        /\ pc[u] = "select_done"
        /\ rec[t].kwargs.response_cost > 0
        /\ rec[t].spend_key \in DOMAIN cache
        /\ window[rec[t].spend_key].created = rec[t].applied_at
        /\ window[rec[t].spend_key].applied = rec[t].kwargs.response_cost
        /\ cache[rec[t].spend_key].value = rec[t].kwargs.response_cost
        /\ cache[rec[t].spend_key].expiry = rec[t].applied_at + rec[t].ttl_seconds
        /\ sel[u].cache_keys = <<rec[t].spend_key>>
        /\ sel[u]._current_spends = <<rec[t].kwargs.response_cost>>

\* C8: however the record calls of the tasks interleave, the value of a
\* counter is the sum of the costs of the calls applied to it in its window;
\* calls that carry the same request id both count
C8_NoLostIncrement ==
    \A k \in DOMAIN cache : cache[k].value = window[k].applied

C8_Witness ==
    \E t \in Tasks : \E u \in Tasks :
        /\ t # u
        /\ pc[t] = "record_done"
        /\ pc[u] = "record_done"
        /\ rec[t].kwargs.id = rec[u].kwargs.id
        /\ rec[t].spend_key = rec[u].spend_key
        /\ rec[t].spend_key \in DOMAIN cache
        /\ window[rec[t].spend_key].created <= rec[t].applied_at
        /\ window[rec[t].spend_key].created <= rec[u].applied_at
        /\ rec[t].kwargs.response_cost > 0
        /\ rec[u].kwargs.response_cost > 0
        /\ cache[rec[t].spend_key].value =
               rec[t].kwargs.response_cost + rec[u].kwargs.response_cost

\* C9: no call of the filter or of the recorder runs against a configuration
\* that holds a malformed period: it is rejected at construction
C9_MalformedPeriodRejectedAtInit ==
    \A t \in Tasks :
        pc[t] # "idle" =>
            \A p \in DOMAIN provider_budget_config :
                WellFormedPeriod(provider_budget_config[p].time_period)

\* C10: get_ttl_seconds gives n * 86400 for a count n of days followed by d
\* and raises for every other string
C10_PeriodToSeconds ==
    ttl_result # NotCalled =>
        IF WellFormedPeriod(time_period)
        THEN ttl_result = [raised |-> "no", value |-> PeriodSeconds(time_period)]
        ELSE ttl_result.raised = "ValueError"

\* C11: a call of the filter makes one batch read; its key list holds the key
\* of each budgeted provider of the candidates once, however many candidates
\* share the provider, and no key of a provider without a budget
C11_OneReadOfDistinctKeys ==
    \A t \in Tasks :
        LET keys == sel[t].cache_keys
            wanted == { SpendKey(ProviderOf(d),
                                 provider_budget_config[ProviderOf(d)].time_period) :
                          d \in { e \in Range(sel[t].healthy_deployments) :
                                    Budgeted(ProviderOf(e)) } }
        IN /\ pc[t] \in {"select_await", "select_done"} =>
                  /\ \A i \in 1..Len(keys) : \A j \in 1..Len(keys) :
                         keys[i] = keys[j] => i = j
                  /\ Range(keys) = wanted
           /\ pc[t] = "select_await" => sel[t].reads = 0
           /\ pc[t] = "select_done" => sel[t].reads = 1

C11_Witness ==
    \E t \in Tasks :
        /\ pc[t] = "select_done"
        /\ sel[t].reads = 1
        /\ Len(sel[t].cache_keys) = 1
        /\ \E i \in 1..Len(sel[t].healthy_deployments) :
           \E j \in 1..Len(sel[t].healthy_deployments) :
               /\ i # j
               /\ ProviderOf(sel[t].healthy_deployments[i]) =
                      ProviderOf(sel[t].healthy_deployments[j])
               /\ Budgeted(ProviderOf(sel[t].healthy_deployments[i]))
        /\ \E d \in Range(sel[t].healthy_deployments) : ~Budgeted(ProviderOf(d))

\* C12: when the provider of a candidate cannot be derived, the call of the
\* filter fails with that error before any read: it returns neither a
\* deployment nor no deployment, whatever the other candidates are
C12_ProviderErrorPropagates ==
    \A t \in Tasks :
        (/\ pc[t] \in {"select_await", "select_done", "select_raised"}
         /\ \E d \in Range(sel[t].healthy_deployments) : get_llm_provider(d.model) = "")
        => /\ pc[t] = "select_raised"
           /\ sel[t].error = "ProviderError"
           /\ sel[t].result = NoDeployment
           /\ sel[t].reads = 0

C12_Witness ==
    \E t \in Tasks :
        /\ pc[t] = "select_raised"
        /\ sel[t].error = "ProviderError"
        /\ \E d \in Range(sel[t].healthy_deployments) : get_llm_provider(d.model) = ""
        /\ \E d \in Range(sel[t].healthy_deployments) :
               /\ Budgeted(ProviderOf(d))
               /\ SpendKey(ProviderOf(d),
                           provider_budget_config[ProviderOf(d)].time_period)
                      \notin DOMAIN cache

\* C13: when the store fails during the increment, the recorder drops the
\* error: it returns normally and the counter stays as it was
C13_WriteErrorIsDropped ==
    [][\A t \in Tasks :
           (pc[t] = "record_await" /\ rec'[t].error = "StoreError")
           => (pc'[t] = "record_done" /\ cache' = cache)]_vars

C15_AdmissionIsNotTransactional ==
    [][/\ \A t \in Tasks :
              (pc[t] = "select_await" /\ pc'[t] = "select_done") => cache' = cache
       /\ \A t \in Tasks :
              (pc'[t] \in {"record_await", "record_done"}
               /\ rec'[t].admitted_read # None)
              => rec'[t].admitted_read <
                     provider_budget_config[rec'[t].kwargs.custom_llm_provider]
                         .budget_limit]_vars

C15_Witness ==
    \E t \in Tasks : \E u \in Tasks :
        /\ t # u
        /\ pc[t] = "record_done"
        /\ pc[u] = "record_done"
        /\ rec[t].spend_key = rec[u].spend_key
        /\ rec[t].spend_key \in DOMAIN cache
        /\ rec[t].admitted_read # None
        /\ rec[u].admitted_read = rec[t].admitted_read
        /\ window[rec[t].spend_key].created <= rec[t].applied_at
        /\ window[rec[t].spend_key].created <= rec[u].applied_at
        /\ cache[rec[t].spend_key].value =
               rec[t].admitted_read + rec[t].response_cost + rec[u].response_cost
        /\ cache[rec[t].spend_key].value >
               provider_budget_config[rec[t].kwargs.custom_llm_provider].budget_limit

\* C16: the store holds no counter whose ttl has elapsed; a call of the filter
\* that finds no counter for a provider reads zero and keeps the candidates of
\* that provider; a call of the recorder that finds none creates the counter
\* with its cost and a ttl of one period from now
C16_ExpiryResetsTheWindow ==
    [][/\ \A k \in DOMAIN cache' : cache'[k].expiry > now'
       /\ \A t \in Tasks :
              (pc[t] = "select_await" /\ pc'[t] = "select_done") =>
                  \A i \in 1..Len(sel[t].cache_keys) :
                      sel[t].cache_keys[i] \notin DOMAIN cache =>
                          /\ sel'[t]._current_spends[i] = None
                          /\ \A d \in Range(sel[t].healthy_deployments) :
                                 ProviderOf(d) = sel[t].cache_keys[i][2] =>
                                     d \in Range(sel'[t].potential_deployments)
       /\ \A t \in Tasks :
              (/\ pc[t] = "record_await"
               /\ pc'[t] = "record_done"
               /\ \A k \in DOMAIN cache : k[2] # rec[t].kwargs.custom_llm_provider)
              => LET p == rec[t].kwargs.custom_llm_provider
                     key == SpendKey(p, provider_budget_config[p].time_period)
                 IN /\ key \in DOMAIN cache'
                    /\ cache'[key].value = rec[t].response_cost
                    /\ cache'[key].expiry =
                           now + PeriodSeconds(provider_budget_config[p].time_period)]_vars

C16_Witness ==
    \E t \in Tasks : \E u \in Tasks :
        /\ pc[u] = "select_done"
        /\ sel[u].result = NoDeployment
        /\ sel[u].cache_keys = <<rec[t].spend_key>>
        /\ pc[t] = "record_done"
        /\ rec[t].spend_key \in DOMAIN cache
        /\ rec[t].admitted_read = 0
        /\ rec[t].applied_at > 0
        /\ window[rec[t].spend_key].created = rec[t].applied_at
        /\ cache[rec[t].spend_key].value = rec[t].response_cost
        /\ cache[rec[t].spend_key].expiry =
               rec[t].applied_at + PeriodSeconds(rec[t].spend_key[3])
        /\ sel[u]._current_spends[1] >=
               provider_budget_config[rec[t].kwargs.custom_llm_provider].budget_limit
        /\ sel[u]._current_spends[1] > cache[rec[t].spend_key].value

C18_ReadErrorPropagates ==
    \A t \in Tasks :
        sel[t].read_failed =>
            /\ pc[t] = "select_raised"
            /\ sel[t].error = "StoreError"
            /\ sel[t].result = NoDeployment
            /\ sel[t].potential_deployments = <<>>

C18_Witness ==
    \E t \in Tasks :
        /\ sel[t].read_failed
        /\ pc[t] = "select_raised"
        /\ sel[t].reads = 1
        /\ \E d \in Range(sel[t].healthy_deployments) :
               /\ Budgeted(ProviderOf(d))
               /\ SpendKey(ProviderOf(d),
                           provider_budget_config[ProviderOf(d)].time_period)
                      \notin DOMAIN cache

\* C19: the spend the filter compares with the limit of a provider is what the
\* store holds under that provider's own key when the batch is read, 0 when the
\* key is missing or has expired; the spend of one provider is never taken for
\* another's
C19_SpendMatchedToOwnKey ==
    [][\A t \in Tasks :
           (pc[t] = "select_await" /\ pc'[t] = "select_done") =>
               \A d \in Range(sel[t].healthy_deployments) :
                   Budgeted(ProviderOf(d)) =>
                       LET p == ProviderOf(d)
                           own == SpendKey(p, provider_budget_config[p].time_period)
                           stored == IF own \in DOMAIN cache THEN cache[own].value ELSE 0
                       IN /\ own \in Range(sel[t].cache_keys)
                          /\ ProviderSpend(provider_budget_config,
                                           sel[t].healthy_deployments,
                                           sel'[t]._current_spends, p) = stored
                          /\ (d \in Range(sel'[t].potential_deployments))
                                 <=> (stored < provider_budget_config[p].budget_limit)]_vars

C19_Witness ==
    \E t \in Tasks :
        /\ pc[t] = "select_done"
        /\ Len(sel[t].cache_keys) = 2
        /\ sel[t]._current_spends[1] = None
        /\ sel[t]._current_spends[2] > 0
        /\ ProviderSpend(provider_budget_config, sel[t].healthy_deployments,
                         sel[t]._current_spends, sel[t].cache_keys[1][2]) = 0
        /\ ProviderSpend(provider_budget_config, sel[t].healthy_deployments,
                         sel[t]._current_spends, sel[t].cache_keys[2][2])
               = sel[t]._current_spends[2]

====
